---- MODULE Spec2Model ----
(***************************************************************************)
(* Model of the publisher application apps/src/main.rs: the function `run` *)
(* that uploads the guest image and input, dry-runs the guest, submits a   *)
(* proving request to the market, waits for its fulfillment, and settles   *)
(* the result on the EvenNumber contract.                                  *)
(*                                                                         *)
(* `run` is sequential: pc names the call it is about to make.  Every      *)
(* external call (client, storage, executor, market, RPC node) answers     *)
(* with a result chosen by the environment.                                *)
(***************************************************************************)
EXTENDS Integers, Sequences, FiniteSets, TLC

VARIABLES
    pc,               \* position of run: the call it makes next, or "done"
    result,           \* what run returned: Running, OkResult, or an error record
    calls,            \* the external calls issued so far, in order
    input,            \* argument `input: U256`
    mcycles_count,    \* main.rs:115
    required_journal, \* main.rs:121
    request,          \* main.rs:136, None before it is built
    request_id,       \* main.rs:167
    fulfillment,      \* the market's record for the request: None or [journal, seal]
    waitState,        \* state of the fulfillment wait
    now,              \* time, in blocks since bidding_start
    expiry,           \* bidding_start + offer.timeout, on the same clock
    poll_interval,    \* second argument of wait_for_request_fulfillment, in blocks
    deadline,         \* third argument of wait_for_request_fulfillment, None or Some(block)
    returned,         \* what the wait returned: None or [journal, seal]
    set_number,       \* the call built at main.rs:184: None or [number, seal]
    tx_hash,          \* hash of the broadcast transaction, None before
    confirmed,        \* watch() reported inclusion
    stored,           \* the number stored in the EvenNumber contract
    number,           \* the value read back at main.rs:201, None before
    cycle_count,      \* the sum at main.rs:115-119, before div_ceil
    price_per_mcycle, \* the rates passed at main.rs:151 and main.rs:156
    effects,          \* what the calls left outside run: uploads, request, transaction
    logged            \* the identifiers run wrote with tracing::info!

vars == <<pc, result, calls, input, mcycles_count, required_journal, request,
          request_id, fulfillment, waitState, now, expiry, poll_interval,
          deadline, returned, set_number, tx_hash, confirmed, stored, number,
          cycle_count, price_per_mcycle, effects, logged>>

\* Option<T>: None, or Some(x) with Unwrap(Some(x)) = x.
None == <<>>

Some(x) == <<x>>

Unwrap(o) == o[1]

\* No request id / transaction hash yet.
NoId == "none"

\* run has not returned yet.
Running == [status |-> "Running"]

OkResult == [status |-> "Ok"]

(***************************************************************************)
(* Program constants.                                                      *)
(***************************************************************************)
TX_TIMEOUT == 3

OfferTimeout == 1000

PollIntervalSecs == 5

MegaCycle == 1000000

\* parse_ether("0.001") and parse_ether("0.002"), in gwei (10^9 wei).
MinPricePerMcycle == 1000000

MaxPricePerMcycle == 2000000

(***************************************************************************)
(* Bounds of the model.                                                    *)
(***************************************************************************)
\* Blocks mined per second: translates the poll interval (seconds) to the
\* clock of offer.timeout (blocks).
BlocksPerSec == 40

\* Bytes of a journal / an ABI word in the model (32 in the program).
WordLen == 2

\* Longest segment list the dry-run reports.
MaxSegments == 2

\* The latest second at which the broadcast transaction may be included.
MaxInclusionDelay == 4

\* Inputs of the stand-alone wait specification.
MaxTimeout == 4

MaxInterval == 3

MaxDeadline == 5

Inputs == {0, 42}

ByteVals == {0, 42}

Po2s == {19, 20}

Seals == {"sealA", "sealB"}

RequestIds == {"req1"}

TxHashes == {"tx1"}

Min(a, b) == IF a <= b THEN a ELSE b

RECURSIVE SeqsOfLen(_, _)
SeqsOfLen(S, n) ==
    IF n = 0 THEN {<<>>}
    ELSE {Append(s, x) : s \in SeqsOfLen(S, n - 1), x \in S}

Journals == SeqsOfLen(ByteVals, WordLen)

SegmentLists == UNION {SeqsOfLen(Po2s, n) : n \in 1..MaxSegments}

RECURSIVE Pow2(_)
Pow2(n) == IF n = 0 THEN 1 ELSE 2 * Pow2(n - 1)

\* Rounding down where div_ceil rounds up.
DivCeil_Floor(a, b) == a \div b

\* u64::div_ceil: the quotient, plus one when there is a remainder.
DivCeil(a, b) == IF a % b > 0 THEN (a \div b) + 1 ELSE a \div b

RECURSIVE SumCycles(_)
SumCycles(segments) ==
    IF segments = <<>> THEN 0
    ELSE Pow2(Head(segments)) + SumCycles(Tail(segments))

\* main.rs:115-120
McyclesCount(segments) == DivCeil(SumCycles(segments), MegaCycle)

\* U256::abi_encode: the big-endian word of the number.
RECURSIVE BeBytes(_, _)
BeBytes(n, len) ==
    IF len = 0 THEN <<>>
    ELSE Append(BeBytes(n \div 256, len - 1), n % 256)

AbiEncode(n) == BeBytes(n, WordLen)

\* U256::from_be_slice
RECURSIVE FromBeSlice(_)
FromBeSlice(bytes) ==
    IF bytes = <<>> THEN 0
    ELSE 256 * FromBeSlice(SubSeq(bytes, 1, Len(bytes) - 1)) + bytes[Len(bytes)]

\* Digestible::digest: injective on journals, kept apart from the bytes.
Digest(journal) == <<"sha256", journal>>

Numbers == {FromBeSlice(j) : j \in Journals}

\* anyhow::Error as run returns it: the library's error, the context string
\* run attached with .context(..) ("" when it used a bare `?`), and the
\* identifiers run formatted into that context.  Every context in run is a
\* string literal, so ids is empty.
Err(source, context) ==
    [status |-> "Err", source |-> source, context |-> context, ids |-> {}]

\* Offer::with_min_price_per_mcycle / with_max_price_per_mcycle: the price
\* per million cycles multiplied by the number of megacycles (main.rs:146-148).
PricePerMcycle(price, mcycles) == price * mcycles

\* OfferFor with the two rates exchanged.
OfferFor_Swapped(rates, mcycles) ==
    [min_price      |-> PricePerMcycle(rates.max, mcycles),
     max_price      |-> PricePerMcycle(rates.min, mcycles),
     bidding_start  |-> 0,
     ramp_up_period |-> 0,
     timeout        |-> OfferTimeout]

\* OfferFor without the with_timeout(1000) call.
OfferFor_NoTimeout(rates, mcycles) ==
    [min_price      |-> PricePerMcycle(rates.min, mcycles),
     max_price      |-> PricePerMcycle(rates.max, mcycles),
     bidding_start  |-> 0,
     ramp_up_period |-> 0,
     timeout        |-> 0]

\* main.rs:143-164.  Offer::default() leaves the fields run does not set
\* (bidding_start, ramp_up_period) at zero.
OfferFor(rates, mcycles) ==
    [min_price      |-> PricePerMcycle(rates.min, mcycles),
     max_price      |-> PricePerMcycle(rates.max, mcycles),
     bidding_start  |-> 0,
     ramp_up_period |-> 0,
     timeout        |-> OfferTimeout]

\* main.rs:136-164
BuildRequest(journal, offer) ==
    [image_url    |-> "image_url",
     input        |-> "input_url",
     requirements |-> [image_id  |-> "IS_EVEN_ID",
                       predicate |-> [type |-> "DigestMatch",
                                      data |-> Digest(journal)]],
     offer        |-> offer]

Init ==
    /\ pc = "from_parts"
    /\ result = Running
    /\ calls = <<>>
    /\ input \in Inputs
    /\ mcycles_count = 0
    /\ required_journal = <<>>
    /\ request = None
    /\ request_id = NoId
    /\ fulfillment = None
    /\ waitState = "Idle"
    /\ now = 0
    /\ expiry = 0
    /\ poll_interval = PollIntervalSecs * BlocksPerSec
    /\ deadline = None
    /\ returned = None
    /\ set_number = None
    /\ tx_hash = NoId
    /\ confirmed = FALSE
    /\ stored = 0
    /\ number = None
    /\ cycle_count = 0
    /\ price_per_mcycle = [min |-> MinPricePerMcycle, max |-> MaxPricePerMcycle]
    /\ effects = {}
    /\ logged = {}

\* A `?` on an Err: run returns the error.
Return(r) ==
    /\ pc' = "done"
    /\ result' = r

\* main.rs:89-95
FromParts ==
    /\ pc = "from_parts"
    /\ calls' = Append(calls, "from_parts")
    /\ \E ok \in BOOLEAN :
         IF ok THEN pc' = "upload_image" /\ result' = result
         ELSE Return(Err("ClientError", ""))
    /\ UNCHANGED <<input, mcycles_count, required_journal, request, request_id,
                   fulfillment, waitState, now, expiry, poll_interval, deadline,
                   returned, set_number, tx_hash, confirmed, stored, number,
                   cycle_count, price_per_mcycle, effects, logged>>

\* A successful call leaves its effect outside run, and run logs the
\* identifier it got back.
Record(id) ==
    /\ effects' = effects \cup {id}
    /\ logged' = logged \cup {id}

\* UploadImage that goes on to the dry run without uploading the input.
UploadImage_SkipInput ==
    /\ pc = "upload_image"
    /\ calls' = Append(calls, "upload_image")
    /\ \E ok \in BOOLEAN :
         IF ok THEN pc' = "execute" /\ result' = result /\ Record("image_url")
         ELSE Return(Err("StorageError", "")) /\ UNCHANGED <<effects, logged>>
    /\ UNCHANGED <<input, mcycles_count, required_journal, request, request_id,
                   fulfillment, waitState, now, expiry, poll_interval, deadline,
                   returned, set_number, tx_hash, confirmed, stored, number,
                   cycle_count, price_per_mcycle>>

\* main.rs:98-99
UploadImage ==
    /\ pc = "upload_image"
    /\ calls' = Append(calls, "upload_image")
    /\ \E ok \in BOOLEAN :
         IF ok THEN pc' = "upload_input" /\ result' = result /\ Record("image_url")
         ELSE Return(Err("StorageError", "")) /\ UNCHANGED <<effects, logged>>
    /\ UNCHANGED <<input, mcycles_count, required_journal, request, request_id,
                   fulfillment, waitState, now, expiry, poll_interval, deadline,
                   returned, set_number, tx_hash, confirmed, stored, number,
                   cycle_count, price_per_mcycle>>

\* main.rs:102-104
UploadInput ==
    /\ pc = "upload_input"
    /\ calls' = Append(calls, "upload_input")
    /\ \E ok \in BOOLEAN :
         IF ok THEN pc' = "execute" /\ result' = result /\ Record("input_url")
         ELSE Return(Err("StorageError", "")) /\ UNCHANGED <<effects, logged>>
    /\ UNCHANGED <<input, mcycles_count, required_journal, request, request_id,
                   fulfillment, waitState, now, expiry, poll_interval, deadline,
                   returned, set_number, tx_hash, confirmed, stored, number,
                   cycle_count, price_per_mcycle>>

\* Execute that goes on with an empty session when the dry run fails.
Execute_IgnoreFailure ==
    /\ pc = "execute"
    /\ calls' = Append(calls, "execute")
    /\ \/ /\ request' = Some(BuildRequest(required_journal,
                                           OfferFor(price_per_mcycle, 0)))
          /\ pc' = "submit_request"
          /\ result' = result
          /\ UNCHANGED <<cycle_count, mcycles_count, required_journal>>
       \/ \E segments \in SegmentLists, journal \in Journals :
            /\ cycle_count' = SumCycles(segments)
            /\ mcycles_count' = McyclesCount(segments)
            /\ required_journal' = journal
            /\ request' = Some(BuildRequest(journal,
                                   OfferFor(price_per_mcycle, McyclesCount(segments))))
            /\ pc' = "submit_request"
            /\ result' = result
    /\ UNCHANGED <<input, request_id, fulfillment, waitState, now, expiry,
                   poll_interval, deadline, returned, set_number, tx_hash,
                   confirmed, stored, number, price_per_mcycle, effects, logged>>

\* main.rs:111-164: the dry run, then the request built from its outcome.
Execute ==
    /\ pc = "execute"
    /\ calls' = Append(calls, "execute")
    /\ \/ /\ Return(Err("ExecutorError", ""))
          /\ UNCHANGED <<cycle_count, mcycles_count, required_journal, request>>
       \/ \E segments \in SegmentLists, journal \in Journals :
            /\ cycle_count' = SumCycles(segments)
            /\ mcycles_count' = McyclesCount(segments)
            /\ required_journal' = journal
            /\ request' = Some(BuildRequest(journal,
                                   OfferFor(price_per_mcycle, McyclesCount(segments))))
            /\ pc' = "submit_request"
            /\ result' = result
    /\ UNCHANGED <<input, request_id, fulfillment, waitState, now, expiry,
                   poll_interval, deadline, returned, set_number, tx_hash,
                   confirmed, stored, number, price_per_mcycle, effects, logged>>

\* SubmitRequest that submits again after a rejected submission.
SubmitRequest_Retry ==
    /\ pc = "submit_request"
    /\ calls' = Append(calls, "submit_request")
    /\ \/ /\ pc' = "submit_request"
          /\ result' = result
          /\ UNCHANGED <<request_id, waitState, now, expiry, effects, logged>>
       \/ \E id \in RequestIds :
            /\ request_id' = id
            /\ waitState' = "Submitted"
            /\ now' = 0
            /\ expiry' = Unwrap(request).offer.bidding_start
                             + Unwrap(request).offer.timeout
            /\ Record(id)
            /\ pc' = "wait"
            /\ result' = result
    /\ UNCHANGED <<input, mcycles_count, required_journal, request, fulfillment,
                   poll_interval, deadline, returned, set_number, tx_hash,
                   confirmed, stored, number, cycle_count, price_per_mcycle>>

\* main.rs:167-168: on success the market holds the request; bidding starts
\* at the submission, block 0 of the clock.
SubmitRequest ==
    /\ pc = "submit_request"
    /\ calls' = Append(calls, "submit_request")
    /\ \/ /\ Return(Err("SubmissionError", ""))
          /\ UNCHANGED <<request_id, waitState, now, expiry, effects, logged>>
       \/ \E id \in RequestIds :
            /\ request_id' = id
            /\ waitState' = "Submitted"
            /\ now' = 0
            /\ expiry' = Unwrap(request).offer.bidding_start
                             + Unwrap(request).offer.timeout
            /\ Record(id)
            /\ pc' = "wait"
            /\ result' = result
    /\ UNCHANGED <<input, mcycles_count, required_journal, request, fulfillment,
                   poll_interval, deadline, returned, set_number, tx_hash,
                   confirmed, stored, number, cycle_count, price_per_mcycle>>

(***************************************************************************)
(* The fulfillment wait, wait_for_request_fulfillment(id, interval,        *)
(* deadline): Submitted -> Polling -> {Fulfilled, Expired,                 *)
(* DeadlineExceeded}.  Each poll queries the market; a poll that finds the *)
(* request neither fulfilled nor timed out sleeps one interval, but never  *)
(* beyond the request's expiry or the caller's deadline.                   *)
(***************************************************************************)
Waiting == {"Submitted", "Polling"}

Terminal == {"Fulfilled", "Expired", "DeadlineExceeded"}

\* The earlier of the request's expiry and the caller's deadline.
Cutoff(exp, dl) == IF dl = None THEN exp ELSE Min(exp, Unwrap(dl))

\* PollOutcome that reports every timeout as the request's expiry.
PollOutcome_Conflated(fulfilled, t, exp, dl) ==
    IF fulfilled THEN "Fulfilled"
    ELSE IF t >= Cutoff(exp, dl) THEN "Expired"
    ELSE "Polling"

\* PollOutcome that never looks at the request's expiry.
PollOutcome_NoExpiry(fulfilled, t, exp, dl) ==
    IF fulfilled THEN "Fulfilled"
    ELSE IF dl # None /\ t >= Unwrap(dl) THEN "DeadlineExceeded"
    ELSE "Polling"

PollOutcome(fulfilled, t, exp, dl) ==
    IF fulfilled THEN "Fulfilled"
    ELSE IF dl # None /\ Unwrap(dl) < exp /\ t >= Unwrap(dl) THEN "DeadlineExceeded"
    ELSE IF t >= exp THEN "Expired"
    ELSE "Polling"

NextPollTime(t, interval, exp, dl) == Min(t + interval, Cutoff(exp, dl))

\* StartPolling that passes a deadline of one poll interval.
StartPolling_WithDeadline ==
    /\ pc = "wait"
    /\ waitState = "Submitted"
    /\ waitState' = "Polling"
    /\ deadline' = Some(poll_interval)
    /\ UNCHANGED <<pc, result, calls, input, mcycles_count, required_journal,
                   request, request_id, fulfillment, now, expiry, poll_interval,
                   returned, set_number, tx_hash, confirmed, stored, number,
                   cycle_count, price_per_mcycle, effects, logged>>

\* main.rs:174-175: run enters the wait, with the interval and the deadline
\* (None) it has had from the start.
StartPolling ==
    /\ pc = "wait"
    /\ waitState = "Submitted"
    /\ waitState' = "Polling"
    /\ UNCHANGED <<pc, result, calls, input, mcycles_count, required_journal,
                   request, request_id, fulfillment, now, expiry, poll_interval,
                   deadline, returned, set_number, tx_hash, confirmed, stored,
                   number,
                   cycle_count, price_per_mcycle, effects, logged>>

\* A prover fulfills the request while it is open.  The journal and the
\* seal are the prover's.
MarketFulfill ==
    /\ pc = "wait"
    /\ waitState \in Waiting
    /\ fulfillment = None
    /\ \E journal \in Journals, seal \in Seals :
         fulfillment' = Some([journal |-> journal, seal |-> seal])
    /\ UNCHANGED <<pc, result, calls, input, mcycles_count, required_journal,
                   request, request_id, waitState, now, expiry, poll_interval,
                   deadline, returned, set_number, tx_hash, confirmed, stored,
                   number,
                   cycle_count, price_per_mcycle, effects, logged>>

\* Poll that keeps querying after the wait has ended.
Poll_AfterTerminal ==
    /\ pc = "wait"
    /\ waitState \in {"Polling"} \cup Terminal
    /\ calls' = Append(calls, "get_status")
    /\ Len(calls) < 12
    /\ LET outcome == PollOutcome(fulfillment # None, now, expiry, deadline) IN
         /\ waitState' = outcome
         /\ now' = IF outcome = "Polling"
                   THEN NextPollTime(now, poll_interval, expiry, deadline)
                   ELSE now
         /\ returned' = IF outcome = "Fulfilled" THEN fulfillment ELSE returned
    /\ UNCHANGED <<pc, result, input, mcycles_count, required_journal, request,
                   request_id, fulfillment, expiry, poll_interval, deadline,
                   set_number, tx_hash, confirmed, stored, number,
                   cycle_count, price_per_mcycle, effects, logged>>

\* One status query of the poll loop, and the sleep that follows a
\* "not yet fulfilled" answer.
Poll ==
    /\ pc = "wait"
    /\ waitState = "Polling"
    /\ calls' = Append(calls, "get_status")
    /\ LET outcome == PollOutcome(fulfillment # None, now, expiry, deadline) IN
         /\ waitState' = outcome
         /\ now' = IF outcome = "Polling"
                   THEN NextPollTime(now, poll_interval, expiry, deadline)
                   ELSE now
         /\ returned' = IF outcome = "Fulfilled" THEN fulfillment ELSE returned
    /\ UNCHANGED <<pc, result, input, mcycles_count, required_journal, request,
                   request_id, fulfillment, expiry, poll_interval, deadline,
                   set_number, tx_hash, confirmed, stored, number,
                   cycle_count, price_per_mcycle, effects, logged>>

\* AfterWait with the error of the wait dropped: an expired request is
\* settled with an empty seal.
AfterWait_IgnoreError ==
    /\ pc = "wait"
    /\ waitState \in Terminal
    /\ set_number' = Some([number |-> FromBeSlice(required_journal),
                           seal   |-> IF returned = None THEN "empty"
                                      ELSE Unwrap(returned).seal])
    /\ pc' = "send"
    /\ result' = result
    /\ UNCHANGED <<calls, input, mcycles_count, required_journal, request,
                   request_id, fulfillment, waitState, now, expiry,
                   poll_interval, deadline, returned, tx_hash, confirmed,
                   stored, number,
                   cycle_count, price_per_mcycle, effects, logged>>

\* AfterWait settling the journal the market returned.
AfterWait_ReturnedJournal ==
    /\ pc = "wait"
    /\ waitState \in Terminal
    /\ IF waitState = "Fulfilled"
       THEN /\ set_number' = Some([number |-> FromBeSlice(Unwrap(returned).journal),
                                   seal   |-> Unwrap(returned).seal])
            /\ pc' = "send"
            /\ result' = result
       ELSE /\ Return(Err(waitState, ""))
            /\ set_number' = set_number
    /\ UNCHANGED <<calls, input, mcycles_count, required_journal, request,
                   request_id, fulfillment, waitState, now, expiry,
                   poll_interval, deadline, returned, tx_hash, confirmed,
                   stored, number,
                   cycle_count, price_per_mcycle, effects, logged>>

\* main.rs:174-186: the `?` on the wait's result; on Ok the returned journal
\* is dropped and the set call is built from required_journal and the seal.
AfterWait ==
    /\ pc = "wait"
    /\ waitState \in Terminal
    /\ IF waitState = "Fulfilled"
       THEN /\ set_number' = Some([number |-> FromBeSlice(required_journal),
                                   seal   |-> Unwrap(returned).seal])
            /\ pc' = "send"
            /\ result' = result
       ELSE /\ Return(Err(waitState, ""))
            /\ set_number' = set_number
    /\ UNCHANGED <<calls, input, mcycles_count, required_journal, request,
                   request_id, fulfillment, waitState, now, expiry,
                   poll_interval, deadline, returned, tx_hash, confirmed,
                   stored, number,
                   cycle_count, price_per_mcycle, effects, logged>>

\* Send that reads back without watching the transaction.
Send_SkipWatch ==
    /\ pc = "send"
    /\ calls' = Append(calls, "send")
    /\ \/ /\ Return(Err("SendError", "failed to broadcast tx"))
          /\ UNCHANGED <<tx_hash, effects, logged>>
       \/ \E h \in TxHashes :
            /\ tx_hash' = h
            /\ Record(h)
            /\ pc' = "get"
            /\ result' = result
    /\ UNCHANGED <<input, mcycles_count, required_journal, request, request_id,
                   fulfillment, waitState, now, expiry, poll_interval, deadline,
                   returned, set_number, confirmed, stored, number,
                   cycle_count, price_per_mcycle>>

\* Send that broadcasts again after a failed broadcast.
Send_Retry ==
    /\ pc = "send"
    /\ calls' = Append(calls, "send")
    /\ \/ /\ pc' = "send"
          /\ result' = result
          /\ UNCHANGED <<tx_hash, effects, logged>>
       \/ \E h \in TxHashes :
            /\ tx_hash' = h
            /\ Record(h)
            /\ pc' = "watch"
            /\ result' = result
    /\ UNCHANGED <<input, mcycles_count, required_journal, request, request_id,
                   fulfillment, waitState, now, expiry, poll_interval, deadline,
                   returned, set_number, confirmed, stored, number,
                   cycle_count, price_per_mcycle>>

\* main.rs:191: set_number.send()
Send ==
    /\ pc = "send"
    /\ calls' = Append(calls, "send")
    /\ \/ /\ Return(Err("SendError", "failed to broadcast tx"))
          /\ UNCHANGED <<tx_hash, effects, logged>>
       \/ \E h \in TxHashes :
            /\ tx_hash' = h
            /\ Record(h)
            /\ pc' = "watch"
            /\ result' = result
    /\ UNCHANGED <<input, mcycles_count, required_journal, request, request_id,
                   fulfillment, waitState, now, expiry, poll_interval, deadline,
                   returned, set_number, confirmed, stored, number,
                   cycle_count, price_per_mcycle>>

\* When the broadcast transaction is included: a delay in seconds, or never.
InclusionDelays == {Some(d) : d \in 0..MaxInclusionDelay} \cup {None}

\* PendingTransactionBuilder::watch under with_timeout(Some(TX_TIMEOUT)).
WatchOutcome(delay) ==
    IF delay # None /\ Unwrap(delay) <= TX_TIMEOUT THEN "Confirmed" ELSE "WatchTimeout"

\* main.rs:193-197.  An included transaction stores its number in the contract.
Watch ==
    /\ pc = "watch"
    /\ calls' = Append(calls, "watch")
    /\ \E delay \in InclusionDelays :
         IF WatchOutcome(delay) = "Confirmed"
         THEN /\ confirmed' = TRUE
              /\ stored' = Unwrap(set_number).number
              /\ pc' = "get"
              /\ result' = result
         ELSE /\ Return(Err(WatchOutcome(delay), "failed to confirm tx"))
              /\ UNCHANGED <<confirmed, stored>>
    /\ UNCHANGED <<input, mcycles_count, required_journal, request, request_id,
                   fulfillment, waitState, now, expiry, poll_interval, deadline,
                   returned, set_number, tx_hash, number,
                   cycle_count, price_per_mcycle, effects, logged>>

\* Another transaction changes the contract's number before the read-back.
OtherWriter ==
    /\ pc = "get"
    /\ stored = Unwrap(set_number).number
    /\ \E n \in Numbers \ {stored} : stored' = n
    /\ UNCHANGED <<pc, result, calls, input, mcycles_count, required_journal,
                   request, request_id, fulfillment, waitState, now, expiry,
                   poll_interval, deadline, returned, set_number, tx_hash,
                   confirmed, number,
                   cycle_count, price_per_mcycle, effects, logged>>

\* Get that returns Ok(()) when the read-back call fails.
Get_SwallowError ==
    /\ pc = "get"
    /\ calls' = Append(calls, "get")
    /\ \/ /\ Return(OkResult)
          /\ number' = number
       \/ /\ number' = Some(stored)
          /\ Return(OkResult)
    /\ UNCHANGED <<input, mcycles_count, required_journal, request, request_id,
                   fulfillment, waitState, now, expiry, poll_interval, deadline,
                   returned, set_number, tx_hash, confirmed, stored,
                   cycle_count, price_per_mcycle, effects, logged>>

\* main.rs:201-213: the value read back is logged; run returns Ok(()).
Get ==
    /\ pc = "get"
    /\ calls' = Append(calls, "get")
    /\ \/ /\ Return(Err("CallError", "failed to get number"))
          /\ number' = number
       \/ /\ number' = Some(stored)
          /\ Return(OkResult)
    /\ UNCHANGED <<input, mcycles_count, required_journal, request, request_id,
                   fulfillment, waitState, now, expiry, poll_interval, deadline,
                   returned, set_number, tx_hash, confirmed, stored,
                   cycle_count, price_per_mcycle, effects, logged>>

Next ==
    \/ FromParts
    \/ UploadImage
    \/ UploadInput
    \/ Execute
    \/ SubmitRequest
    \/ StartPolling
    \/ MarketFulfill
    \/ Poll
    \/ AfterWait
    \/ Send
    \/ Watch
    \/ OtherWriter
    \/ Get

Spec == Init /\ [][Next]_vars

(***************************************************************************)
(* The wait on its own: any timeout, poll interval and deadline.           *)
(***************************************************************************)
Deadlines == {Some(d) : d \in 0..MaxDeadline} \cup {None}

InitWait ==
    /\ pc = "wait"
    /\ result = Running
    /\ calls = <<>>
    /\ input = 0
    /\ mcycles_count = 0
    /\ required_journal = <<>>
    /\ request = None
    /\ request_id \in RequestIds
    /\ fulfillment = None
    /\ waitState = "Submitted"
    /\ now = 0
    /\ expiry \in 1..MaxTimeout
    /\ poll_interval \in 1..MaxInterval
    /\ deadline \in Deadlines
    /\ returned = None
    /\ set_number = None
    /\ tx_hash = NoId
    /\ confirmed = FALSE
    /\ stored = 0
    /\ number = None
    /\ cycle_count = 0
    /\ price_per_mcycle = [min |-> MinPricePerMcycle, max |-> MaxPricePerMcycle]
    /\ effects = {}
    /\ logged = {}

NextWait ==
    \/ StartPolling
    \/ MarketFulfill
    \/ Poll

WaitSpec == InitWait /\ [][NextWait]_vars

\* The wait is a running task: its next step is eventually taken.  The
\* market owes no fulfillment.
FairWaitSpec == WaitSpec /\ WF_vars(StartPolling) /\ WF_vars(Poll)

(***************************************************************************)
(* The pricing of the offer on its own (main.rs:115-164): any cycle count  *)
(* and any pair of rates.                                                  *)
(***************************************************************************)
CycleCounts ==
    {0, 1, MegaCycle - 1, MegaCycle, MegaCycle + 1, 2500000}
        \cup {SumCycles(segments) : segments \in SegmentLists}

Rates == {1000, 2000, MinPricePerMcycle, MaxPricePerMcycle}

InitPrice ==
    /\ pc = "price"
    /\ result = Running
    /\ calls = <<>>
    /\ input = 0
    /\ mcycles_count = 0
    /\ required_journal = <<>>
    /\ request = None
    /\ request_id = NoId
    /\ fulfillment = None
    /\ waitState = "Idle"
    /\ now = 0
    /\ expiry = 0
    /\ poll_interval = PollIntervalSecs * BlocksPerSec
    /\ deadline = None
    /\ returned = None
    /\ set_number = None
    /\ tx_hash = NoId
    /\ confirmed = FALSE
    /\ stored = 0
    /\ number = None
    /\ cycle_count \in CycleCounts
    /\ price_per_mcycle \in [min : Rates, max : Rates]
    /\ effects = {}
    /\ logged = {}

\* main.rs:120-164 for the cycle count and the rates at hand.
PriceOffer ==
    /\ pc = "price"
    /\ mcycles_count' = DivCeil(cycle_count, MegaCycle)
    /\ request' = Some(BuildRequest(required_journal,
                           OfferFor(price_per_mcycle, DivCeil(cycle_count, MegaCycle))))
    /\ pc' = "priced"
    /\ UNCHANGED <<result, calls, input, required_journal, request_id,
                   fulfillment, waitState, now, expiry, poll_interval, deadline,
                   returned, set_number, tx_hash, confirmed, stored, number,
                   cycle_count, price_per_mcycle, effects, logged>>

NextPrice == PriceOffer

PriceSpec == InitPrice /\ [][NextPrice]_vars

(***************************************************************************)
(* run under the timeout of tests::test_main: the future of run is dropped *)
(* at the await it is suspended on.  The call in flight may or may not     *)
(* have taken effect.                                                      *)
(***************************************************************************)
AwaitPoints ==
    {"from_parts", "upload_image", "upload_input", "submit_request", "wait",
     "send", "watch", "get"}

\* What the call awaited at position p leaves outside run when it succeeds.
InFlightEffect(p) ==
    CASE p = "upload_image" -> {"image_url"}
      [] p = "upload_input" -> {"input_url"}
      [] p = "submit_request" -> RequestIds
      [] p = "send" -> TxHashes
      [] OTHER -> {}

\* main.rs:280-291: timeout(RUN_TIMEOUT, run(..)) elapses.
Cancel ==
    /\ pc \in AwaitPoints
    /\ pc' = "done"
    /\ result' = Err("Elapsed", "")
    /\ calls' = IF pc = "wait" THEN calls ELSE Append(calls, pc)
    /\ \E done \in SUBSET InFlightEffect(pc) :
         /\ Cardinality(done) <= 1
         /\ effects' = effects \cup done
    /\ UNCHANGED <<input, mcycles_count, required_journal, request, request_id,
                   fulfillment, waitState, now, expiry, poll_interval, deadline,
                   returned, set_number, tx_hash, confirmed, stored, number,
                   cycle_count, price_per_mcycle, logged>>

NextTest ==
    \/ Next
    \/ Cancel

TestSpec == Init /\ [][NextTest]_vars

(***************************************************************************)
(* Properties.                                                             *)
(***************************************************************************)
RECURSIVE Count(_, _)
Count(seq, x) ==
    IF seq = <<>> THEN 0
    ELSE (IF Head(seq) = x THEN 1 ELSE 0) + Count(Tail(seq), x)

Called(x) == Count(calls, x) > 0

\* The phase of an external call: submission, fulfillment poll, settlement,
\* read-back; 0 for what precedes submission.
Phase(call) ==
    CASE call = "submit_request" -> 1
      [] call = "get_status" -> 2
      [] call \in {"send", "watch"} -> 3
      [] call = "get" -> 4
      [] OTHER -> 0

SettlementCalls == Count(calls, "send") + Count(calls, "watch") + Count(calls, "get")

\* C1: the external calls of run happen in phase order (submission, polls,
\* settlement, read-back); the first poll follows a completed submission,
\* the settlement calls follow an observed fulfillment, and the read-back
\* follows the confirmation.
C1_PhaseOrder ==
    /\ \A i, j \in DOMAIN calls : i < j => Phase(calls[i]) <= Phase(calls[j])
    /\ Called("get_status") => Called("submit_request") /\ request_id # NoId
    /\ Called("send") \/ Called("watch") => waitState = "Fulfilled" /\ returned # None
    /\ Called("watch") => tx_hash # NoId
    /\ Called("get") => confirmed /\ Called("watch")

C1_Witness ==
    /\ pc = "done"
    /\ result = OkResult
    /\ Count(calls, "get_status") >= 2
    /\ Called("get")

\* C2: when the wait ends with Expired, run makes no settlement-phase call
\* (send, watch, get) and, once returned, has returned the Expired error.
C2_NoSettlementAfterExpired ==
    waitState = "Expired" =>
        /\ SettlementCalls = 0
        /\ pc \in {"wait", "done"}
        /\ pc = "done" => result = Err("Expired", "")
        /\ set_number = None /\ tx_hash = NoId

C2_Witness ==
    /\ pc = "done"
    /\ waitState = "Expired"
    /\ Called("submit_request")

C4_PostconditionChecked ==
    /\ Count(calls, "get") <= 1
    /\ Called("get") => confirmed
    /\ (number # None /\ Unwrap(number) # Unwrap(set_number).number) =>
           result.status = "Err" /\ result.source = "PostconditionMismatch"
    /\ result = OkResult => number = Some(Unwrap(set_number).number)

\* C5: a run that was fulfilled, broadcast, confirmed and read back has
\* returned Ok after all five phases, and the value read back is the
\* settled number.
C5_HappyPath ==
    (pc = "done" /\ waitState = "Fulfilled" /\ confirmed /\ number # None) =>
        /\ result = OkResult
        /\ \A c \in {"submit_request", "get_status", "send", "watch", "get"} : Called(c)
        /\ Unwrap(number) = FromBeSlice(required_journal)

\* C6: a wait whose deadline is earlier than the request's expiry never
\* ends Expired, and ends DeadlineExceeded when no fulfillment arrived.
C6_DeadlineNotExpired ==
    (waitState \in Terminal /\ deadline # None /\ Unwrap(deadline) < expiry) =>
        /\ waitState # "Expired"
        /\ fulfillment = None => waitState = "DeadlineExceeded"
        /\ waitState = "DeadlineExceeded" => fulfillment = None

C6_Witness ==
    /\ waitState = "DeadlineExceeded"
    /\ Unwrap(deadline) < expiry
    /\ Count(calls, "get_status") >= 2

\* C7: the wait moves Submitted -> Polling -> {Fulfilled, Expired,
\* DeadlineExceeded}; a poll that finds the request neither fulfilled nor
\* timed out re-enters Polling one interval later; after a terminal state
\* no poll is issued and the state does not change.
C7_Step ==
    /\ waitState' # waitState =>
           \/ waitState = "Idle" /\ waitState' = "Submitted"
           \/ waitState = "Submitted" /\ waitState' = "Polling"
           \/ waitState = "Polling" /\ waitState' \in Terminal
    /\ waitState \in Terminal =>
           /\ waitState' = waitState
           /\ Count(calls', "get_status") = Count(calls, "get_status")
    /\ (/\ Count(calls', "get_status") > Count(calls, "get_status")
        /\ fulfillment = None
        /\ now < Cutoff(expiry, deadline)) =>
           waitState = "Polling" /\ waitState' = "Polling" /\ now' > now

C7_WaitStateMachine == [][C7_Step]_vars

C7_Witness ==
    /\ waitState \in Terminal
    /\ Count(calls, "get_status") >= 3

\* C8: the wait ends; it never polls beyond the request's expiry, so the
\* number of its polls is bounded by the timeout whatever the interval; with
\* no deadline and no fulfillment it ends Expired.
C8_WaitTerminates ==
    /\ [](now <= expiry /\ Count(calls, "get_status") <= expiry + 1)
    /\ <>(waitState \in Terminal)
    /\ []((waitState \in Terminal /\ deadline = None /\ fulfillment = None)
            => waitState = "Expired")

C8_Witness ==
    /\ waitState = "Expired"
    /\ deadline = None
    /\ poll_interval < expiry
    /\ now = expiry

\* C9: a confirmation timeout ends run with an error that carries the hash
\* of the broadcast transaction, and no read-back is made.
C9_TimeoutErrorHasTxHash ==
    (result.status = "Err" /\ result.source = "WatchTimeout") =>
        /\ pc = "done"
        /\ tx_hash # NoId
        /\ tx_hash \in result.ids
        /\ ~Called("get")

\* C10: the settlement transaction is broadcast at most once; a failed
\* broadcast and a confirmation timeout each end run with one send made.
C10_BroadcastAtMostOnce ==
    /\ Count(calls, "send") <= 1
    /\ Count(calls, "watch") <= 1
    /\ (Called("send") /\ tx_hash = NoId /\ pc # "send") =>
           pc = "done" /\ result = Err("SendError", "failed to broadcast tx")
    /\ (result.status = "Err" /\ result.source \in {"SendError", "WatchTimeout"}) =>
           pc = "done" /\ Count(calls, "send") = 1

C10_Witness ==
    /\ pc = "done"
    /\ result.status = "Err"
    /\ result.source \in {"SendError", "WatchTimeout"}

\* C11: a failed dry run ends run before any request is submitted, any
\* poll is made or any transaction is broadcast; whatever is submitted was
\* priced and digested from a dry run that succeeded.
C11_DryRunFailsFast ==
    /\ (result.status = "Err" /\ result.source = "ExecutorError") =>
           /\ pc = "done"
           /\ ~Called("submit_request") /\ ~Called("get_status") /\ ~Called("send")
           /\ request = None /\ request_id = NoId /\ tx_hash = NoId
    /\ Called("submit_request") =>
           /\ required_journal \in Journals
           /\ mcycles_count >= 1
           /\ Count(calls, "execute") = 1

C11_Witness ==
    /\ result.status = "Err"
    /\ result.source = "ExecutorError"
    /\ Called("execute")

\* C12: submit_request is called at most once on every path, exactly once
\* on every path that reaches the wait, and a rejected submission ends run.
C12_SubmittedOnce ==
    /\ Count(calls, "submit_request") <= 1
    /\ (pc = "wait" \/ Called("get_status")) =>
           Count(calls, "submit_request") = 1 /\ request_id # NoId
    /\ (result.status = "Err" /\ result.source = "SubmissionError") =>
           /\ pc = "done"
           /\ Count(calls, "submit_request") = 1
           /\ request_id = NoId
           /\ ~Called("get_status")

C12_Witness ==
    /\ result.status = "Err"
    /\ result.source = "SubmissionError"

\* The least n with n megacycles >= c.
CeilMegaCycles(c) ==
    CHOOSE n \in 0..(c \div MegaCycle + 1) :
        /\ n * MegaCycle >= c
        /\ n = 0 \/ (n - 1) * MegaCycle < c

\* C13 as claimed: min_price and max_price are the rates times the cycle
\* count in megacycles rounded up, and 2,500,000 cycles at 1000 and 2000
\* give 3000 and 5000.
C13_ExampleGives5000 ==
    pc = "priced" =>
        LET offer == Unwrap(request).offer IN
        /\ mcycles_count = CeilMegaCycles(cycle_count)
        /\ offer.min_price = price_per_mcycle.min * CeilMegaCycles(cycle_count)
        /\ offer.max_price = price_per_mcycle.max * CeilMegaCycles(cycle_count)
        /\ (cycle_count = 2500000 /\ price_per_mcycle = [min |-> 1000, max |-> 2000]) =>
               offer.min_price = 3000 /\ offer.max_price = 5000

\* C13 as amended: min_price and max_price are the rates times the cycle
\* count in megacycles rounded up; 2,500,000 cycles at 1000 and 2000 give
\* 3000 and 6000.
C13_PriceIsRateTimesCeil ==
    pc = "priced" =>
        LET offer == Unwrap(request).offer IN
        /\ mcycles_count = CeilMegaCycles(cycle_count)
        /\ offer.min_price = price_per_mcycle.min * CeilMegaCycles(cycle_count)
        /\ offer.max_price = price_per_mcycle.max * CeilMegaCycles(cycle_count)
        /\ (cycle_count = 2500000 /\ price_per_mcycle = [min |-> 1000, max |-> 2000]) =>
               offer.min_price = 3000 /\ offer.max_price = 6000

C13_Witness ==
    /\ pc = "priced"
    /\ cycle_count = 2500000
    /\ price_per_mcycle = [min |-> 1000, max |-> 2000]
    /\ mcycles_count = 3

\* C14: with min_per_mcycle <= max_per_mcycle the offer has min_price <=
\* max_price, and neither price decreases when the cycle count grows.
C14_PricesOrderedAndMonotone ==
    (pc = "priced" /\ price_per_mcycle.min <= price_per_mcycle.max) =>
        LET offer == Unwrap(request).offer IN
        /\ offer.min_price <= offer.max_price
        /\ \A c \in CycleCounts :
             c >= cycle_count =>
                 LET larger == OfferFor(price_per_mcycle, DivCeil(c, MegaCycle)) IN
                 /\ larger.min_price >= offer.min_price
                 /\ larger.max_price >= offer.max_price

C14_Witness ==
    /\ pc = "priced"
    /\ price_per_mcycle.min < price_per_mcycle.max
    /\ cycle_count > MegaCycle
    /\ Unwrap(request).offer.min_price < Unwrap(request).offer.max_price

C17_EffectsReported ==
    \A id \in effects \cap (RequestIds \cup TxHashes) :
        \/ id \in logged
        \/ result.status = "Err" /\ id \in result.ids

\* The call that failed, by the error it gave.
FailingCalls(source) ==
    CASE source = "ClientError" -> {"from_parts"}
      [] source = "StorageError" -> {"upload_image", "upload_input"}
      [] source = "ExecutorError" -> {"execute"}
      [] source = "SubmissionError" -> {"submit_request"}
      [] source \in {"Expired", "DeadlineExceeded"} -> {"get_status"}
      [] source = "SendError" -> {"send"}
      [] source = "WatchTimeout" -> {"watch"}
      [] source = "CallError" -> {"get"}
      [] OTHER -> {}

ErrorsPropagated ==
    /\ pc = "done" => result # Running
    /\ result = OkResult =>
           /\ {"image_url", "input_url", request_id, tx_hash} \subseteq effects
           /\ request # None /\ request_id # NoId /\ waitState = "Fulfilled"
           /\ tx_hash # NoId /\ confirmed /\ number # None
           /\ \A c \in {"from_parts", "upload_image", "upload_input", "execute",
                        "submit_request", "get_status", "send", "watch", "get"} :
                  Called(c)
    /\ result.status = "Err" =>
           /\ pc = "done"
           /\ calls # <<>>
           /\ calls[Len(calls)] \in FailingCalls(result.source)

\* C18: a failure of any phase makes run return an error: run returns Ok
\* only when every call succeeded, an error names the call made last, and
\* after run returned no call is made.  A poll that finds the request not
\* yet fulfilled is no failure.
C18_NoErrorSwallowed ==
    /\ []ErrorsPropagated
    /\ [][pc = "done" => calls' = calls]_vars

C18_Witness ==
    /\ result.status = "Err"
    /\ result.source = "Expired"
    /\ Count(calls, "get_status") >= 2

\* C19: run waits with no deadline and the 5 second interval, and its wait
\* never ends DeadlineExceeded.
C19_NoDeadlineFromRun ==
    /\ deadline = None
    /\ poll_interval = PollIntervalSecs * BlocksPerSec
    /\ waitState \in Terminal => waitState \in {"Fulfilled", "Expired"}
    /\ result.status = "Err" => result.source # "DeadlineExceeded"

C19_Witness ==
    /\ pc = "done"
    /\ waitState = "Expired"
    /\ now = expiry

\* C20: the image and the input are uploaded before the dry run; a run whose
\* dry run failed has made both uploads and submitted no request.
C20_UploadsBeforeDryRun ==
    /\ Called("execute") =>
           /\ {"image_url", "input_url"} \subseteq effects
           /\ \E i, j, k \in DOMAIN calls :
                /\ i < j /\ j < k
                /\ calls[i] = "upload_image"
                /\ calls[j] = "upload_input"
                /\ calls[k] = "execute"
    /\ (result.status = "Err" /\ result.source = "ExecutorError") =>
           /\ effects = {"image_url", "input_url"}
           /\ ~Called("submit_request")
           /\ request_id = NoId

C20_Witness ==
    /\ pc = "done"
    /\ result.status = "Err"
    /\ result.source = "ExecutorError"
    /\ effects = {"image_url", "input_url"}

====
